---- MODULE Spec2Model ----
(***************************************************************************)
(* A model of ihome_racing.py: the bridge that polls the iRacing telemetry *)
(* source once a second and republishes it on an MQTT broker.              *)
(*                                                                         *)
(* Python values are tagged records, so that None, integers and strings    *)
(* can be compared with each other.  Floats are fixed-point integers       *)
(* (the unit is given where they are used).                                *)
(***************************************************************************)
EXTENDS Integers, Sequences, FiniteSets, TLC

VARIABLES
    pc,          \* position of the main thread
    base_topic,  \* MQTT.base_topic (config["mqtt"]["baseTopic"])
    connected,   \* MQTT.connected
    loopRunning, \* the client's network thread (loop_start .. loop_stop)
    session,     \* the Session of the current send_telemetry call
    car,         \* the Car of the current send_telemetry call
    track,       \* the Track of the current send_telemetry call
    kind,        \* "none", "live" or "idle": the cycle being published
    cycle,       \* the messages client.publish got in the current send_telemetry call
    sdata,       \* session.sensors() of the current call, <<>> until it is evaluated
    warnings,    \* logger.warning calls made by the current send_telemetry call
    statusLog,   \* the messages birth() and will() have published, in order
    everAvailable, \* iracing_running has returned true at least once
    anyTelemetry,  \* a telemetry message has been published
    ticks,       \* availability checks made so far (bounded by MaxTicks)
    unavail,     \* length of the current run of checks that returned false
    idleCycles,  \* idle cycles completed during the current run of false checks
    okConnects,  \* on_connect callbacks with rc = 0 so far
    callbacks,   \* callbacks delivered so far (bounded by MaxCallbacks)
    initRc,      \* result of the connection attempt made by the constructor
    flagSetBy,   \* rc of the on_connect call that last wrote connected = True
    lastCb,      \* the latest callback and how it ended, "none" before the first
    irOps,       \* the calls the latest tick has made on the SDK object, in order
    intAt,       \* where the KeyboardInterrupt struck: <<pc, kind>>, or <<"none", "none">>
    postOps      \* transport operations issued since the interrupt

vars == <<pc, base_topic, connected, loopRunning, session, car, track, kind,
          cycle, sdata, warnings, statusLog, everAvailable, anyTelemetry,
          ticks, unavail, idleCycles, okConnects, callbacks, initRc, flagSetBy,
          lastCb, irOps, intAt, postOps>>

-----------------------------------------------------------------------------
(* Bounds of the model *)

MaxTicks == 3       \* availability checks in one run
MaxCallbacks == 3   \* connection callbacks in one run
MaxRc == 6          \* largest result code the broker is taken to answer
MaxSpeed == 60      \* speeds around zero, in hundredths of a metre per second
MaxFuel == 30       \* fuel fractions next to 0 and to 1, in ten-thousandths

-----------------------------------------------------------------------------
(* Python values *)

None == [t |-> "none"]
IntV(n) == [t |-> "int", i |-> n]
StrV(s) == [t |-> "str", s |-> s]
\* a float with one decimal: n is the value in tenths
Dec1V(n) == [t |-> "dec1", d |-> n]
\* a string kept as its sequence of characters
CharsV(cs) == [t |-> "chars", cs |-> cs]
\* json.dumps of a dict: the (key, value) pairs in order
JsonV(pairs) == [t |-> "json", obj |-> pairs]

\* bool(v) for the value kinds that reach an `if`
Truthy(v) ==
    CASE v.t = "none" -> FALSE
      [] v.t = "int" -> v.i # 0
      [] v.t = "str" -> v.s # ""
      [] OTHER -> TRUE

\* rounding down instead of toward zero
Trunc_floor(n, unit) == n \div unit

\* int(x) of a number x = n / unit: truncation toward zero
Trunc(n, unit) == IF n >= 0 THEN n \div unit ELSE -((-n) \div unit)

\* A dict literal: a repeated key keeps its first position and takes the last value.
RECURSIVE DictPut(_, _, _)
DictPut(d, k, v) ==
    IF d = <<>> THEN <<<<k, v>>>>
    ELSE IF Head(d)[1] = k THEN <<<<k, v>>>> \o Tail(d)
    ELSE <<Head(d)>> \o DictPut(Tail(d), k, v)

RECURSIVE DictLiteral(_)
DictLiteral(pairs) ==
    IF pairs = <<>> THEN <<>>
    ELSE DictPut(DictLiteral(SubSeq(pairs, 1, Len(pairs) - 1)),
                 pairs[Len(pairs)][1], pairs[Len(pairs)][2])

DictGet(d, k) == d[CHOOSE j \in 1..Len(d) : d[j][1] = k][2]

-----------------------------------------------------------------------------
(* Strings as character sequences: str.replace(c, "") and str.strip() *)

IsSpace(c) == c \in {" ", "\t", "\n"}

Replace(cs, c) == SelectSeq(cs, LAMBDA x : x # c)

RECURSIVE LStrip(_)
LStrip(cs) == IF cs # <<>> /\ IsSpace(Head(cs)) THEN LStrip(Tail(cs)) ELSE cs

RECURSIVE RStrip(_)
RStrip(cs) ==
    IF cs # <<>> /\ IsSpace(cs[Len(cs)]) THEN RStrip(SubSeq(cs, 1, Len(cs) - 1)) ELSE cs

\* strip() mistaken for lstrip()
Strip_leftOnly(cs) == LStrip(cs)

Strip(cs) == RStrip(LStrip(cs))

-----------------------------------------------------------------------------
(* time.strftime("%H:%M:%S", time.gmtime(secs)) *)

Digit(d) == <<"0", "1", "2", "3", "4", "5", "6", "7", "8", "9">>[d + 1]

TwoDigits(n) == Digit(n \div 10) \o Digit(n % 10)

\* gmtime(None) is gmtime(): the current time, `now` seconds since the epoch
gmtime(secs, now) ==
    LET t == IF secs = None THEN now ELSE secs.i
        d == t % 86400
    IN  [tm_hour |-> d \div 3600, tm_min |-> (d % 3600) \div 60, tm_sec |-> d % 60]

strftime(tm) ==
    StrV(TwoDigits(tm.tm_hour) \o ":" \o TwoDigits(tm.tm_min) \o ":" \o TwoDigits(tm.tm_sec))

-----------------------------------------------------------------------------
(* sessionSateMap and the domain models *)

sessionSateMap ==
    [c \in 0..6 |->
        <<"Venter", "Gjør seg klar", "Oppvarming", "Kjører til start",
          "Racing", "I mål", "Cooldown">>[c + 1]]

\* Car: rpm and speed in hundredths, fuel_percent in ten-thousandths
Car(rpm, speed, fuel_percent, gear) ==
    [rpm |-> rpm, speed |-> speed, fuel_percent |-> fuel_percent, gear |-> gear]

CarDefault == Car(0, 0, 0, 0)

\* taking the next tenth above in every case
RoundHalfEven_up(n, unit) == n \div unit + 1

\* round(n / unit) to the nearest integer, ties to the even one
RoundHalfEven(n, unit) ==
    LET q == n \div unit
        r == n % unit
    IN  IF 2 * r < unit THEN q
        ELSE IF 2 * r > unit THEN q + 1
        ELSE IF q % 2 = 0 THEN q ELSE q + 1

CarSensors(c) ==
    DictLiteral(<< <<"rpm", IntV(Trunc(c.rpm, 100))>>,
                   <<"speed", IntV(Trunc(c.speed * 36, 1000))>>,
                   <<"fuel_percent", Dec1V(RoundHalfEven(c.fuel_percent, 10))>>,
                   <<"gear", IntV(c.gear)>> >>)

Session(event_type, current_session_type, session_laps_total, session_time_remain, lap_best_lap_time, lap_completed, player_car_class_position, track_name, car_name, session_state) ==
    [event_type |-> event_type, current_session_type |-> current_session_type,
     session_laps_total |-> session_laps_total,
     session_time_remain |-> session_time_remain,
     lap_best_lap_time |-> lap_best_lap_time, lap_completed |-> lap_completed,
     player_car_class_position |-> player_car_class_position,
     track_name |-> track_name, car_name |-> car_name, session_state |-> session_state]

SessionDefault == Session(None, None, None, None, None, None, None, None, None, None)

\* session_state_mapped without its except clause: the KeyError escapes
session_state_mapped_noExcept(s) ==
    IF Truthy(s.session_state)
    THEN IF s.session_state.i \in DOMAIN sessionSateMap
         THEN [ret |-> StrV(sessionSateMap[s.session_state.i]), warn |-> FALSE, exc |-> "none"]
         ELSE [ret |-> None, warn |-> FALSE, exc |-> "KeyError"]
    ELSE [ret |-> None, warn |-> FALSE, exc |-> "none"]

\* The property's result: the value returned, whether a warning was logged,
\* and the exception that escaped ("none" when it returned).
session_state_mapped(s) ==
    IF Truthy(s.session_state)
    THEN IF s.session_state.i \in DOMAIN sessionSateMap
         THEN [ret |-> StrV(sessionSateMap[s.session_state.i]), warn |-> FALSE, exc |-> "none"]
         ELSE [ret |-> s.session_state, warn |-> TRUE, exc |-> "none"]
    ELSE [ret |-> None, warn |-> FALSE, exc |-> "none"]

SessionSensors(s, now) ==
    DictLiteral(<< <<"event_type", s.event_type>>,
                   <<"session_laps_total", s.session_laps_total>>,
                   <<"session_time_remain", strftime(gmtime(s.session_time_remain, now))>>,
                   <<"session_state", s.session_state>>,
                   <<"lap_best_lap_time", s.lap_best_lap_time>>,
                   <<"current_session_type", s.current_session_type>>,
                   <<"lap_completed", s.lap_completed>>,
                   <<"player_car_class_position", s.player_car_class_position>>,
                   <<"track_name", s.track_name>>,
                   <<"car_name", s.car_name>>,
                   <<"session_state", session_state_mapped(s).ret>> >>)

\* config["home"]["lat"] and config["home"]["lon"]
HomeLat == <<"5", "9", ".", "9">>
HomeLon == <<"1", "0", ".", "7">>

Track(temperature, latitude, longitude) ==
    [temperature |-> temperature,
     latitude |-> IF latitude = None THEN HomeLat ELSE latitude.cs,
     longitude |-> IF longitude = None THEN HomeLon ELSE longitude.cs]

TrackDefault == Track(0, None, None)

TrackState(tr) == JsonV(<< <<"temperature", IntV(tr.temperature)>> >>)

TrackAttributes(tr) ==
    JsonV(<< <<"latitude", CharsV(Strip(Replace(tr.latitude, "m")))>>,
             <<"longitude", CharsV(Strip(Replace(tr.longitude, "m")))>> >>)

-----------------------------------------------------------------------------
(* MQTT: the messages handed to client.publish *)

Msg(topic, payload) == [topic |-> topic, payload |-> payload]

\* publish with the base topic forgotten
publish_noBase(topic_part, data) == Msg(topic_part, data)

\* MQTT.publish(topic_part, data)
publish(topic_part, data) == Msg(base_topic \o topic_part, data)

\* MQTT.birth() and MQTT.will()
birth == Msg("homeassistant/status", StrV("online"))
will == Msg("homeassistant/status", StrV("offline"))

\* len(self.mqttRC)
mqttRCLen == 6

-----------------------------------------------------------------------------
(* The inputs the environment supplies *)

BaseTopics == {"iracing/", "home/sim/"}

\* time.time(), seconds since the epoch
NowSet == {1700000000, 1700003661}

\* ir['SessionState']
LiveSessionStates == {None, IntV(0), IntV(4), IntV(7), IntV(99)}

\* every session state with one hour and 61 seconds left, and a race at its end
LiveSessions ==
    {Session(StrV("Race"), StrV("Practice"), IntV(20), sr[1], IntV(83), IntV(5),
             IntV(2), StrV("Spa"), StrV("MX-5"), sr[2]) :
        sr \in ({IntV(3661)} \X LiveSessionStates) \cup {<<IntV(0), IntV(4)>>}}

\* 6500.5 rpm, 27.78 m/s, fuel at 0.1234, third gear
LiveCars == {Car(650050, 2778, 1234, 3)}

LiveTracks ==
    {Track(25, CharsV(<<" ", "4", "5", ".", "1", "m", " ">>),
           CharsV(<<"6", ".", "2", " ", "m">>))}

\* iracing_running(ir): the three answers of the SDK
iracing_running(is_startup, is_initialized, is_connected) ==
    is_startup /\ is_initialized /\ is_connected

-----------------------------------------------------------------------------
(* send_telemetry *)

\* The messages of one send_telemetry call, in the order it publishes them;
\* s_data is session.sensors(), which the call evaluates when it reaches the
\* session loop (<<>> before that).
send_telemetry(s_data, c, tr) ==
    <<publish("track/attributes", TrackAttributes(tr))>>
    \o [j \in 1..Len(CarSensors(c)) |->
            publish("car/" \o CarSensors(c)[j][1], CarSensors(c)[j][2])]
    \o [j \in 1..Len(s_data) |-> publish("session/" \o s_data[j][1], s_data[j][2])]
    \o <<publish("track", TrackState(tr))>>

\* the handler going from its send_telemetry call straight to loop_stop
AfterSend_noWill(p) == IF p = "send" THEN "sleep" ELSE "h_stop"

\* where the main thread goes when a send_telemetry call returns
AfterSend(p) == IF p = "send" THEN "sleep" ELSE "h_will"

\* The next message of the call, msgs being all of them, reaches client.publish.
Published(msgs) ==
    LET msg == msgs[Len(cycle) + 1]
    IN  /\ cycle' = Append(cycle, msg)
        /\ anyTelemetry' = TRUE
        /\ postOps' = IF pc = "h_send" THEN Append(postOps, msg) ELSE postOps
        /\ pc' = IF Len(cycle) + 1 = Len(msgs) THEN AfterSend(pc) ELSE pc

\* One client.publish of the running send_telemetry call.  The call can be cut
\* between any two of them by a KeyboardInterrupt, so each is a step.
PublishStep ==
    /\ pc \in {"send", "h_send"}
    /\ LET n == Len(cycle)
           evaluating == n = 1 + Len(CarSensors(car)) /\ sdata = <<>>
       IN  IF evaluating
           THEN \E now \in NowSet :
                  LET mapped == session_state_mapped(session)
                      sd == SessionSensors(session, now)
                  IN  IF mapped.exc # "none"
                      THEN \* the exception leaves send_telemetry, process and main
                           /\ pc' = "killed"
                           /\ UNCHANGED <<cycle, sdata, warnings, anyTelemetry, postOps>>
                      ELSE /\ sdata' = sd
                           /\ warnings' = IF mapped.warn THEN warnings + 1 ELSE warnings
                           /\ Published(send_telemetry(sd, car, track))
           ELSE /\ UNCHANGED <<sdata, warnings>>
                /\ Published(send_telemetry(sdata, car, track))
    /\ idleCycles' = IF pc' = "sleep" /\ kind = "idle" THEN idleCycles + 1 ELSE idleCycles
    /\ UNCHANGED <<base_topic, lastCb, irOps, connected, loopRunning, session, car, track, kind,
                   statusLog, everAvailable, ticks, unavail, okConnects,
                   callbacks, initRc, flagSetBy, intAt>>

-----------------------------------------------------------------------------
(* MQTT.__init__ *)

Init ==
    /\ pc = "start"
    /\ base_topic \in BaseTopics
    /\ connected = FALSE
    /\ loopRunning = FALSE
    /\ session = SessionDefault
    /\ car = CarDefault
    /\ track = TrackDefault
    /\ kind = "none"
    /\ cycle = <<>>
    /\ sdata = <<>>
    /\ warnings = 0
    /\ statusLog = <<>>
    /\ everAvailable = FALSE
    /\ anyTelemetry = FALSE
    /\ ticks = 0
    /\ unavail = 0
    /\ idleCycles = 0
    /\ okConnects = 0
    /\ callbacks = 0
    /\ initRc = "none"
    /\ flagSetBy = "none"
    /\ lastCb = "none"
    /\ irOps = <<>>
    /\ intAt = <<"none", "none">>
    /\ postOps = <<>>

\* connect() without the try around it: the error leaves __init__ and main
MqttConnect_raiseEscapes ==
    /\ pc = "start"
    /\ loopRunning' = TRUE
    /\ \E raises \in BOOLEAN :
         /\ pc' = IF raises THEN "killed" ELSE "birth"
         /\ initRc' = IF raises THEN "none" ELSE "pending"
    /\ UNCHANGED <<base_topic, lastCb, irOps, connected, session, car, track, kind, cycle, sdata,
                   warnings, statusLog, everAvailable, anyTelemetry, ticks,
                   unavail, idleCycles, okConnects, callbacks, flagSetBy, intAt, postOps>>

\* loop_start(), then connect(): it returns once the CONNECT packet is sent,
\* or raises (host unreachable) and the except clause logs the error.
MqttConnect ==
    /\ pc = "start"
    /\ loopRunning' = TRUE
    /\ \E raises \in BOOLEAN :
         /\ pc' = IF raises THEN "wait" ELSE "birth"
         /\ initRc' = IF raises THEN "none" ELSE "pending"
    /\ UNCHANGED <<base_topic, lastCb, irOps, connected, session, car, track, kind, cycle, sdata,
                   warnings, statusLog, everAvailable, anyTelemetry, ticks,
                   unavail, idleCycles, okConnects, callbacks, flagSetBy, intAt, postOps>>

\* self.birth(), right after connect() has returned
MqttBirth ==
    /\ pc = "birth"
    /\ statusLog' = Append(statusLog, birth)
    /\ pc' = "wait"
    /\ UNCHANGED <<base_topic, lastCb, irOps, connected, loopRunning, session, car, track, kind,
                   cycle, sdata, warnings, everAvailable, anyTelemetry, ticks,
                   unavail, idleCycles, okConnects, callbacks, initRc, flagSetBy,
                   intAt, postOps>>

\* how the result code of an on_connect call is classed
RcClass(rc) == IF rc = 0 THEN "ok" ELSE IF rc < mqttRCLen THEN "refused" ELSE "error"

\* the value on_connect leaves in self.connected
on_connect_flag(rc, old) == IF rc = 0 THEN TRUE ELSE old

\* Paho callback on_connect(client, userdata, flags, rc), on the network thread.
\* self.mqttRC[rc] raises IndexError for rc >= 6: the callback ends there and
\* the exception ends the network thread.
on_connect ==
    /\ loopRunning
    /\ callbacks < MaxCallbacks
    /\ \E rc \in 0..MaxRc :
         /\ connected' = IF rc < mqttRCLen THEN on_connect_flag(rc, connected) ELSE connected
         /\ loopRunning' = (rc < mqttRCLen)
         /\ okConnects' = IF rc = 0 THEN okConnects + 1 ELSE okConnects
         /\ initRc' = IF initRc = "pending" THEN RcClass(rc) ELSE initRc
         /\ flagSetBy' = IF rc < mqttRCLen /\ on_connect_flag(rc, FALSE)
                          THEN RcClass(rc) ELSE flagSetBy
         /\ lastCb' = IF rc < mqttRCLen THEN "on_connect_" \o RcClass(rc) ELSE "on_connect_raised"
    /\ callbacks' = callbacks + 1
    /\ UNCHANGED <<pc, base_topic, irOps, session, car, track, kind, cycle, sdata, warnings,
                   statusLog, everAvailable, anyTelemetry, ticks, unavail,
                   idleCycles, intAt, postOps>>

\* Paho callback on_disconnect(client, userdata, rc), on the network thread
on_disconnect ==
    /\ loopRunning
    /\ callbacks < MaxCallbacks
    /\ \E rc \in 0..1 :
         /\ connected' = FALSE
         /\ initRc' = IF initRc = "pending" THEN "dropped" ELSE initRc
    /\ lastCb' = "on_disconnect"
    /\ callbacks' = callbacks + 1
    /\ UNCHANGED <<pc, base_topic, irOps, loopRunning, session, car, track, kind, cycle,
                   sdata, warnings, statusLog, everAvailable, anyTelemetry, ticks,
                   unavail, idleCycles, okConnects, flagSetBy, intAt, postOps>>

-----------------------------------------------------------------------------
(* main and process *)

\* the startup loop with its condition inverted
main_wait_inverted(running) == IF running THEN "wait" ELSE "tick"

\* main's startup loop, `while not iracing_running(ir)`: where it goes after a check
main_wait(running) == IF running THEN "tick" ELSE "wait"

\* One round of the startup loop: the check, and when it is false the debug
\* line and time.sleep(1).  When it is true main calls process.
WaitTick ==
    /\ pc = "wait"
    /\ ticks < MaxTicks
    /\ \E is_startup \in BOOLEAN, is_initialized \in BOOLEAN, is_connected \in BOOLEAN :
         LET running == iracing_running(is_startup, is_initialized, is_connected)
         IN  /\ pc' = main_wait(running)
             /\ irOps' = <<"iracing_running">>
             /\ everAvailable' = (everAvailable \/ running)
             /\ unavail' = IF running THEN 0 ELSE unavail + 1
             /\ idleCycles' = IF running THEN 0 ELSE idleCycles
    /\ ticks' = ticks + 1
    /\ UNCHANGED <<base_topic, lastCb, connected, loopRunning, session, car, track, kind,
                   cycle, sdata, warnings, statusLog, anyTelemetry, okConnects,
                   callbacks, initRc, flagSetBy, intAt, postOps>>

\* process with the else branch publishing nothing new: it treats every tick as live
process_branch_alwaysLive(running) == "live"

\* process: the branch a tick takes on the answer of iracing_running
process_branch(running) == IF running THEN "live" ELSE "idle"

\* the fields process reads from the snapshot for Session, Car and Track, in
\* the order Python evaluates the arguments
SnapshotReads ==
    <<"ir[WeekendInfo]", "ir[SessionInfo]", "ir[SessionNum]", "ir[SessionLapsTotal]",
      "ir[SessionTimeRemain]", "ir[LapBestLapTime]", "ir[LapCompleted]",
      "ir[PlayerCarClassPosition]", "ir[WeekendInfo]", "ir[DriverInfo]",
      "ir[PlayerCarIdx]", "ir[SessionState]", "ir[RPM]", "ir[Speed]",
      "ir[FuelLevelPct]", "ir[Gear]", "ir[WeekendInfo]", "ir[WeekendInfo]",
      "ir[WeekendInfo]">>

\* process reading the fields first and freezing the buffer after them
process_ops_freezeLast(branch) ==
    IF branch = "live" THEN SnapshotReads \o <<"freeze_var_buffer_latest">> ELSE <<>>

\* the calls a tick of process makes on the SDK object after the check
process_ops(branch) ==
    IF branch = "live" THEN <<"freeze_var_buffer_latest">> \o SnapshotReads ELSE <<>>

\* The top of a tick of process: the check, then either
\* freeze_var_buffer_latest() and the three models read from the snapshot, or
\* the three default models; send_telemetry starts with them.
ProcessTick ==
    /\ pc = "tick"
    /\ ticks < MaxTicks
    /\ \E is_startup \in BOOLEAN, is_initialized \in BOOLEAN, is_connected \in BOOLEAN :
         LET running == iracing_running(is_startup, is_initialized, is_connected)
         IN  /\ kind' = process_branch(running)
             /\ irOps' = <<"iracing_running">> \o process_ops(process_branch(running))
             /\ IF process_branch(running) = "live"
                THEN \E s \in LiveSessions, c \in LiveCars, tr \in LiveTracks :
                        /\ session' = s
                        /\ car' = c
                        /\ track' = tr
                ELSE /\ session' = SessionDefault
                     /\ car' = CarDefault
                     /\ track' = TrackDefault
             /\ everAvailable' = (everAvailable \/ running)
             /\ unavail' = IF running THEN 0 ELSE unavail + 1
             /\ idleCycles' = IF running THEN 0 ELSE idleCycles
    /\ pc' = "send"
    /\ cycle' = <<>>
    /\ sdata' = <<>>
    /\ warnings' = 0
    /\ ticks' = ticks + 1
    /\ UNCHANGED <<base_topic, lastCb, connected, loopRunning, statusLog, anyTelemetry,
                   okConnects, callbacks, initRc, flagSetBy, intAt, postOps>>

\* the sleep followed by a second send_telemetry without a check between them
Sleep_resend ==
    /\ pc = "sleep"
    /\ pc' = "send"
    /\ cycle' = <<>>
    /\ sdata' = <<>>
    /\ UNCHANGED <<base_topic, lastCb, irOps, connected, loopRunning, session, car, track, kind,
                   warnings, statusLog, everAvailable, anyTelemetry,
                   ticks, unavail, idleCycles, okConnects, callbacks, initRc,
                   flagSetBy, intAt, postOps>>

\* time.sleep(1) at the end of a tick of process
Sleep ==
    /\ pc = "sleep"
    /\ pc' = "tick"
    /\ UNCHANGED <<base_topic, lastCb, irOps, connected, loopRunning, session, car, track, kind,
                   cycle, sdata, warnings, statusLog, everAvailable, anyTelemetry,
                   ticks, unavail, idleCycles, okConnects, callbacks, initRc,
                   flagSetBy, intAt, postOps>>

\* main's try/except: a KeyboardInterrupt raised inside process is caught,
\* one raised in the startup loop is not and ends the program.
on_interrupt(p) == IF p \in {"tick", "send", "sleep"} THEN "h_send" ELSE "killed"

\* A KeyboardInterrupt reaches the main thread.  Caught, the handler starts
\* send_telemetry(mqtt, Session(), Car(), Track()).
Interrupt ==
    /\ pc \in {"wait", "tick", "send", "sleep"}
    /\ pc' = on_interrupt(pc)
    /\ intAt' = <<pc, kind>>
    /\ postOps' = <<>>
    /\ IF on_interrupt(pc) = "h_send"
       THEN /\ session' = SessionDefault
            /\ car' = CarDefault
            /\ track' = TrackDefault
            /\ kind' = "idle"
            /\ cycle' = <<>>
            /\ sdata' = <<>>
            /\ warnings' = 0
       ELSE UNCHANGED <<session, car, track, kind, cycle, sdata, warnings>>
    /\ UNCHANGED <<base_topic, lastCb, irOps, connected, loopRunning, statusLog, everAvailable,
                   anyTelemetry, ticks, unavail, idleCycles, okConnects, callbacks,
                   initRc, flagSetBy>>

\* the handler publishing another telemetry set after its disconnect
HandlerNext_republish(p) ==
    CASE p = "h_will" -> "h_stop"
      [] p = "h_stop" -> "h_disc"
      [] p = "h_disc" -> "h_send"

\* the handler's steps after its send_telemetry call
HandlerNext(p) ==
    CASE p = "h_will" -> "h_stop"
      [] p = "h_stop" -> "h_disc"
      [] p = "h_disc" -> "done"

DisconnectOp == [op |-> "disconnect"]

\* mqtt.will()
Will ==
    /\ pc = "h_will"
    /\ statusLog' = Append(statusLog, will)
    /\ postOps' = Append(postOps, will)
    /\ pc' = HandlerNext(pc)
    /\ UNCHANGED <<base_topic, lastCb, irOps, connected, loopRunning, session, car, track, kind,
                   cycle, sdata, warnings, everAvailable, anyTelemetry, ticks,
                   unavail, idleCycles, okConnects, callbacks, initRc, flagSetBy, intAt>>

\* mqtt.client.loop_stop(): the network thread ends, no callback comes after it
LoopStop ==
    /\ pc = "h_stop"
    /\ loopRunning' = FALSE
    /\ pc' = HandlerNext(pc)
    /\ UNCHANGED <<base_topic, lastCb, irOps, connected, session, car, track, kind, cycle, sdata,
                   warnings, statusLog, everAvailable, anyTelemetry, ticks,
                   unavail, idleCycles, okConnects, callbacks, initRc, flagSetBy,
                   intAt, postOps>>

\* the shutdown path clearing the flag itself when it disconnects
Disconnect_clearsFlag ==
    /\ pc = "h_disc"
    /\ postOps' = Append(postOps, DisconnectOp)
    /\ pc' = HandlerNext(pc)
    /\ connected' = FALSE
    /\ UNCHANGED <<base_topic, lastCb, irOps, loopRunning, session, car, track, kind,
                   cycle, sdata, warnings, statusLog, everAvailable, anyTelemetry,
                   ticks, unavail, idleCycles, okConnects, callbacks, initRc,
                   flagSetBy, intAt>>

\* mqtt.client.disconnect()
Disconnect ==
    /\ pc = "h_disc"
    /\ postOps' = Append(postOps, DisconnectOp)
    /\ pc' = HandlerNext(pc)
    /\ UNCHANGED <<base_topic, lastCb, irOps, connected, loopRunning, session, car, track, kind,
                   cycle, sdata, warnings, statusLog, everAvailable, anyTelemetry,
                   ticks, unavail, idleCycles, okConnects, callbacks, initRc,
                   flagSetBy, intAt>>

Next ==
    \/ MqttConnect
    \/ MqttBirth
    \/ on_connect
    \/ on_disconnect
    \/ WaitTick
    \/ ProcessTick
    \/ PublishStep
    \/ Sleep
    \/ Interrupt
    \/ Will
    \/ LoopStop
    \/ Disconnect

Spec == Init /\ [][Next]_vars

-----------------------------------------------------------------------------
(* One live tick of process over a wide range of snapshots: the conversions *)
(* of Car.sensors and Track.attributes as send_telemetry publishes them.    *)

\* ir['Speed'] in hundredths: around zero, and around 27.78 m/s
SpeedInputs == (-MaxSpeed..MaxSpeed) \cup {2777, 2778, 2779}

\* ir['FuelLevelPct'] in ten-thousandths: next to empty, next to full, some between
FuelInputs ==
    (0..MaxFuel) \cup {10000 - k : k \in 0..MaxFuel} \cup {1234, 1235, 1245, 5000}

FnCars ==
    {Car(650050, sp, 5000, 3) : sp \in SpeedInputs}
    \cup {Car(650050, 2778, f, 3) : f \in FuelInputs}

\* whitespace around the parts of a coordinate, and the numbers
CoordSpaces == {<<>>, <<" ">>, <<"\t", " ">>}
CoordNumbers == {<<"4", "5", ".", "1", "2", "3">>, <<"-", "6", ".", "2">>}

\* ir['WeekendInfo']['TrackLatitude'] and ['TrackLongitude']: "<number> m" with
\* any whitespace around the parts, and strings that are a bare number already
CoordInputs ==
    {w[1] \o num \o w[2] \o <<"m">> \o w[3] :
        w \in CoordSpaces \X CoordSpaces \X CoordSpaces, num \in CoordNumbers}
    \cup CoordNumbers

CoordFew == {<<"-", "6", ".", "2", " ", "m">>, <<" ", "-", "6", ".", "2", "m", " ">>, <<"4", "5", ".", "1", "2", "3">>}

FnTracks ==
    {Track(25, CharsV(lat), CharsV(lon)) : lat \in CoordInputs, lon \in CoordFew}
    \cup {Track(25, CharsV(lat), CharsV(lon)) : lat \in CoordFew, lon \in CoordInputs}

\* process has found the simulator running and built the three models from the
\* snapshot; send_telemetry is about to start.  (connect() had raised.)
InitFn ==
    /\ pc = "send"
    /\ base_topic \in BaseTopics
    /\ connected = FALSE
    /\ loopRunning = TRUE
    /\ session \in {s \in LiveSessions : s.session_state = IntV(4) /\ s.session_time_remain = IntV(3661)}
    /\ \/ car \in FnCars /\ track \in LiveTracks
       \/ car \in LiveCars /\ track \in FnTracks
    /\ kind = "live"
    /\ cycle = <<>>
    /\ sdata = <<>>
    /\ warnings = 0
    /\ statusLog = <<>>
    /\ everAvailable = TRUE
    /\ anyTelemetry = FALSE
    /\ ticks = 2
    /\ unavail = 0
    /\ idleCycles = 0
    /\ okConnects = 0
    /\ callbacks = 0
    /\ initRc = "none"
    /\ flagSetBy = "none"
    /\ lastCb = "none"
    /\ irOps = <<"iracing_running">> \o process_ops("live")
    /\ intAt = <<"none", "none">>
    /\ postOps = <<>>

NextFn ==
    \/ PublishStep
    \/ Sleep

SpecFn == InitFn /\ [][NextFn]_vars

-----------------------------------------------------------------------------
(* The claims *)

\* the "online" and the "offline" announcements published so far
births == Len(SelectSeq(statusLog, LAMBDA m : m = Msg("homeassistant/status", StrV("online"))))
wills == Len(SelectSeq(statusLog, LAMBDA m : m = Msg("homeassistant/status", StrV("offline"))))

IsPrefix(a, b) == Len(a) <= Len(b) /\ a = SubSeq(b, 1, Len(a))

\* the topic suffixes of one publish cycle, in order
TelemetrySuffixes ==
    <<"track/attributes", "car/rpm", "car/speed", "car/fuel_percent", "car/gear",
      "session/event_type", "session/session_laps_total",
      "session/session_time_remain", "session/session_state",
      "session/lap_best_lap_time", "session/current_session_type",
      "session/lap_completed", "session/player_car_class_position",
      "session/track_name", "session/car_name", "track">>

SessionTopics ==
    {base_topic \o TelemetrySuffixes[j] : j \in 6..15}

InProcess(p) == p \in {"tick", "send", "sleep"}

\* what the transport is to see after an interrupt: the idle set, the will, the disconnect
ShutdownOps(now) ==
    LET idle == send_telemetry(SessionSensors(SessionDefault, now), CarDefault, TrackDefault)
    IN  [j \in 1..Len(TelemetrySuffixes) |->
            Msg(base_topic \o TelemetrySuffixes[j], idle[j].payload)]
        \o <<Msg("homeassistant/status", StrV("offline")), DisconnectOp>>

\* C1: after an interrupt that arrives while process is in the Live state, the
\* transport sees one complete idle publish set, then one will announcement,
\* then the disconnect, in this order and nothing else.
C1_ShutdownSequence ==
    (InProcess(intAt[1]) /\ intAt[2] # "idle") =>
        /\ \E now \in NowSet : IsPrefix(postOps, ShutdownOps(now))
        /\ wills = Len(SelectSeq(postOps, LAMBDA o : o = will))
        /\ wills <= 1
        /\ pc = "done" => Len(postOps) = Len(TelemetrySuffixes) + 2

\* C1 witness: an interrupt in the middle of a live cycle, handled to the end
C1_Witness ==
    /\ pc = "done"
    /\ intAt = <<"send", "live">>
    /\ Len(postOps) = 18
    /\ postOps[17] = will
    /\ postOps[18] = DisconnectOp

\* C2: an interrupt at any point after the transport client is created leads
\* to a final idle publish and a will announcement before the process ends.
C2_InterruptAlwaysFinalises ==
    (intAt[1] # "none" /\ pc \in {"done", "killed"}) =>
        /\ wills = 1
        /\ Len(postOps) >= Len(TelemetrySuffixes) + 1

\* C3: every successful connect (on_connect with rc = 0) has a birth
\* announcement of its own: once the constructor is through, at least as many
\* births have been published as there were successful connects.
C3_BirthOnEverySuccessfulConnect ==
    pc \notin {"start", "birth"} => okConnects <= births

\* C4: an on_connect call with a nonzero result code never writes True to the
\* connected flag, and no birth is announced for a connection attempt whose
\* result code is nonzero.
C4_NonzeroRcNoFlagNoBirth ==
    /\ flagSetBy \in {"none", "ok"}
    /\ initRc \in {"refused", "error"} => births = 0

\* C5 as stated: after N consecutive unavailable ticks, in the startup wait
\* or in process, N idle cycles have been published.
C5_IdleCyclePerUnavailableTick ==
    pc \in {"wait", "tick"} => idleCycles = unavail

\* C5 amended: N consecutive unavailable ticks of process publish exactly N
\* idle cycles, one per tick; unavailable ticks of the startup wait publish none.
C5_IdleCyclePerProcessTick ==
    /\ pc = "wait" => (idleCycles = 0 /\ ~anyTelemetry)
    /\ pc = "tick" => idleCycles = unavail
    /\ (pc = "send" /\ kind = "idle") => (unavail >= 1 /\ idleCycles = unavail - 1)
    /\ (pc = "sleep" /\ kind = "idle") => (unavail >= 1 /\ idleCycles = unavail)
    /\ (pc \in {"send", "sleep"} /\ kind = "live") => (unavail = 0 /\ idleCycles = 0)

\* C5 witness: two unavailable ticks of process in a row, two idle cycles
C5_Witness == pc = "tick" /\ unavail = 2 /\ idleCycles = 2 /\ Len(cycle) = 16

\* C6: in an idle cycle every session topic carries the null marker.
C6_IdleSessionFieldsNull ==
    (kind = "idle" /\ session = SessionDefault) =>
        \A j \in 1..Len(cycle) :
            cycle[j].topic \in SessionTopics => cycle[j].payload = None

\* C7: for every code of the lookup table the message on session/session_state
\* carries the code's label.
C7_TableCodesPublishLabel ==
    \A j \in 1..Len(cycle) :
        (/\ cycle[j].topic = base_topic \o "session/session_state"
         /\ session.session_state.t = "int"
         /\ session.session_state.i \in 0..6)
        => cycle[j].payload = StrV(sessionSateMap[session.session_state.i])

Unmapped(s) == s.session_state.t = "int" /\ s.session_state.i \notin 0..6

\* C8: a session-state code outside the table is returned unchanged with one
\* warning logged and no error: nothing but an interrupt in the startup wait
\* ends the program early, and the cycle with such a code publishes the raw
\* code and runs to its last message.
C8_UnmappedCodePassedThrough ==
    /\ pc = "killed" => intAt[1] = "wait"
    /\ (Unmapped(session) /\ sdata # <<>>) =>
          /\ DictGet(sdata, "session_state") = session.session_state
          /\ warnings = 1
    /\ (Unmapped(session) /\ sdata = <<>>) => warnings = 0
    /\ (Unmapped(session) /\ pc = "sleep") =>
          /\ Len(cycle) = Len(TelemetrySuffixes)
          /\ cycle[9] = Msg(base_topic \o "session/session_state", session.session_state)

\* C8 witness: a live cycle with code 99 published to its end
C8_Witness ==
    /\ pc = "sleep"
    /\ session.session_state = IntV(99)
    /\ warnings = 1
    /\ Len(cycle) = 16
    /\ cycle[9].payload = IntV(99)

\* C9: until iracing_running has returned true once, main is in its startup
\* (or was interrupted there), process has not been entered and no telemetry
\* cycle, live or idle, has been published.
C9_BlocksUntilAvailable ==
    ~everAvailable =>
        /\ pc \in {"start", "birth", "wait", "killed"}
        /\ ~anyTelemetry
        /\ kind = "none"
        /\ cycle = <<>>

\* C9 witness: two checks answered false, main still waiting, nothing published
C9_Witness == pc = "wait" /\ unavail = 2 /\ ~everAvailable /\ ~anyTelemetry

CycleComplete ==
    \/ pc \in {"sleep", "h_will", "h_stop", "h_disc", "done"}
    \/ pc = "tick" /\ kind # "none"

\* C10: every publish cycle, live or idle, publishes the same 16 topics in the
\* same order, each once, on base topic + suffix: what is published so far is
\* a prefix of that list, and a cycle that has returned published all of it.
C10_FixedSixteenMessages ==
    /\ Len(cycle) <= Len(TelemetrySuffixes)
    /\ \A j \in 1..Len(cycle) : cycle[j].topic = base_topic \o TelemetrySuffixes[j]
    /\ CycleComplete => Len(cycle) = Len(TelemetrySuffixes)
    /\ Len(TelemetrySuffixes) = 16

\* C10 witness: an idle cycle, all of its optional fields absent, published whole
C10_Witness ==
    /\ pc = "sleep"
    /\ kind = "idle"
    /\ Len(cycle) = 16
    /\ cycle[7].payload = None
    /\ cycle[16].topic = base_topic \o "track"

\* C11: after construction the connected flag is written by the two
\* callbacks only: every step of the main thread (the poll loop, each publish,
\* birth, will, the shutdown path) leaves it as it is; and no publish looks
\* at it: every step send_telemetry takes publishes its next message and a
\* call that has returned has published all of them, whatever the flag says.
C11_FlagWrittenOnlyByCallbacks ==
    [][/\ callbacks' = callbacks => connected' = connected
       /\ (pc \in {"send", "h_send"} /\ callbacks' = callbacks /\ intAt' = intAt)
            => cycle' = Append(cycle, cycle'[Len(cycle')])
       /\ CycleComplete => Len(cycle) = Len(TelemetrySuffixes)]_vars

\* C11 witness: the flag set by on_connect is still set after a whole run of
\* main, shutdown included, and the last cycle was published whole
C11_Witness ==
    /\ pc = "done"
    /\ connected
    /\ lastCb = "on_connect_ok"
    /\ Len(cycle) = 16

\* the payloads of one cycle, once published
PublishedSpeed == cycle[3].payload
PublishedFuel == cycle[4].payload
PublishedCoords == cycle[1].payload.obj

\* C12: the published speed is the integer part, cut toward zero, of the
\* input speed in m/s times 3.6, for every input speed of either sign, and
\* 27.78 m/s is published as 100.
C12_SpeedTimesFactorTruncated ==
    Len(cycle) >= 3 =>
        LET v == PublishedSpeed.i
            x == car.speed * 36          \* km/h in thousandths
        IN  /\ cycle[3].topic = base_topic \o "car/speed"
            /\ PublishedSpeed = IntV(v)
            /\ x >= 0 => (v >= 0 /\ v * 1000 <= x /\ x < (v + 1) * 1000)
            /\ x <= 0 => (v <= 0 /\ v * 1000 >= x /\ x > (v - 1) * 1000)
            /\ car.speed = 2778 => v = 100

\* C12 witness: 27.78 m/s has been published as 100
C12_Witness ==
    /\ Len(cycle) >= 3
    /\ car.speed = 2778
    /\ PublishedSpeed = IntV(100)

\* the percentage Car.sensors gives for a fuel fraction f, in tenths
FuelOf(f) == DictGet(CarSensors(Car(0, 0, f, 0)), "fuel_percent").d

\* C13 (one state): for a fuel fraction in [0,1] the published percentage is
\* in [0,100], a larger fraction never gives a smaller percentage, and a
\* second call of Car.sensors on the same Car gives the published value.
FuelPercentOk ==
    (Len(cycle) >= 4 /\ car.fuel_percent \in 0..10000) =>
        LET p == PublishedFuel.d
        IN  /\ cycle[4].topic = base_topic \o "car/fuel_percent"
            /\ p \in 0..1000
            /\ \A f \in FuelInputs :
                  /\ f >= car.fuel_percent => FuelOf(f) >= p
                  /\ f <= car.fuel_percent => FuelOf(f) <= p
            /\ PublishedFuel = DictGet(CarSensors(car), "fuel_percent")
            /\ cycle[4] = send_telemetry(sdata, car, track)[4]

\* C13: for every fuel fraction in [0,1] the published fuel_percent lies in
\* [0,100] and is monotonically non-decreasing in the fraction; every call
\* of Car.sensors on the same Car returns the same value, and no call
\* changes the stored fraction.  (Every state in which a message is out is
\* left by a step: the last publish of a cycle is followed by the sleep.)
C13_FuelPercentRangeMonotoneStable ==
    [][FuelPercentOk /\ car' = car]_vars

\* C13 witness: a fraction that rounds up to the full 100 percent has been
\* published, and later calls of Car.sensors have followed
C13_Witness ==
    /\ Len(cycle) = Len(TelemetrySuffixes)
    /\ car.fuel_percent = 9999
    /\ PublishedFuel = Dec1V(1000)

\* C14: Track.attributes publishes, for latitude and for longitude each on
\* its own, the bare number of a coordinate written as optional whitespace,
\* number, optional whitespace, "m", optional whitespace; a value that is a
\* bare number already is published unchanged.
C14_CoordinatesNormalised ==
    Len(cycle) >= 1 =>
        /\ cycle[1].topic = base_topic \o "track/attributes"
        /\ Len(PublishedCoords) = 2
        /\ PublishedCoords[1][1] = "latitude"
        /\ PublishedCoords[2][1] = "longitude"
        /\ \A num \in CoordNumbers, w \in CoordSpaces \X CoordSpaces \X CoordSpaces :
              LET raw == w[1] \o num \o w[2] \o <<"m">> \o w[3]
              IN  /\ track.latitude \in {raw, num} => PublishedCoords[1][2] = CharsV(num)
                  /\ track.longitude \in {raw, num} => PublishedCoords[2][2] = CharsV(num)
        /\ track.latitude \in CoordInputs /\ track.longitude \in CoordInputs
             => /\ PublishedCoords[1][2].cs \in CoordNumbers
                /\ PublishedCoords[2][2].cs \in CoordNumbers
                /\ TrackAttributes(Track(0, PublishedCoords[1][2], PublishedCoords[2][2])) = cycle[1].payload

\* C14 witness: " 45.123m " as latitude beside a differently written
\* longitude, published as "45.123" and "-6.2"
C14_Witness ==
    /\ Len(cycle) >= 1
    /\ track.latitude = <<" ", "4", "5", ".", "1", "2", "3", "m", " ">>
    /\ track.longitude = <<"-", "6", ".", "2", " ", "m">>
    /\ PublishedCoords[1][2] = CharsV(<<"4", "5", ".", "1", "2", "3">>)
    /\ PublishedCoords[2][2] = CharsV(<<"-", "6", ".", "2">>)

\* a step of the main thread inside process: no callback, no interrupt
ProcessStep == callbacks' = callbacks /\ intAt' = intAt

\* C15: every tick of process publishes one complete cycle and then sleeps
\* once: the tick starts with the check and an empty cycle, the cycle is live
\* exactly when that check returned true and is the cycle of the default
\* models otherwise; each publish adds the next message of that cycle; the
\* sleep starts when all 16 are out and leads to the next check.
C15_OneCycleThenSleepPerTick ==
    [][ProcessStep =>
          /\ pc = "tick" =>
                /\ pc' = "send" /\ cycle' = <<>>
                /\ irOps'[1] = "iracing_running"
                /\ kind' = "live" <=> unavail' = 0
                /\ kind' = "idle" <=> unavail' = unavail + 1
                /\ kind' = "idle" =>
                      session' = SessionDefault /\ car' = CarDefault /\ track' = TrackDefault
          /\ pc = "send" =>
                /\ Len(cycle) < Len(TelemetrySuffixes)
                /\ cycle' = Append(cycle, send_telemetry(sdata', car, track)[Len(cycle) + 1])
                /\ <<kind, session, car, track, unavail>>' = <<kind, session, car, track, unavail>>
                /\ pc' = IF Len(cycle') = Len(TelemetrySuffixes) THEN "sleep" ELSE "send"
          /\ pc = "sleep" =>
                /\ pc' = "tick"
                /\ Len(cycle) = Len(TelemetrySuffixes)
                /\ <<kind, cycle, unavail>>' = <<kind, cycle, unavail>>]_vars

\* C15 witness: the third check of the run answered false after one that
\* answered true; the tick has published its idle cycle and slept
C15_Witness ==
    /\ pc = "tick"
    /\ ticks = 3
    /\ everAvailable
    /\ unavail = 1
    /\ kind = "idle"
    /\ Len(cycle) = Len(TelemetrySuffixes)
    /\ session = SessionDefault

\* positions of an operation in the calls of the current tick
OpsAt(op) == {i \in 1..Len(irOps) : irOps[i] = op}
ReadsAt == {i \in 1..Len(irOps) : \E j \in 1..Len(SnapshotReads) : irOps[i] = SnapshotReads[j]}

\* C16: a live tick calls freeze_var_buffer_latest exactly once, after the
\* availability check and before its first field read; no tick reads a field
\* without a refresh before it; an idle tick neither refreshes nor reads.
C16_RefreshOncePerLiveTick ==
    /\ \A i \in ReadsAt : \E j \in OpsAt("freeze_var_buffer_latest") : j < i
    /\ (pc \in {"tick", "send", "sleep"} /\ kind = "live") =>
          /\ OpsAt("iracing_running") = {1}
          /\ OpsAt("freeze_var_buffer_latest") = {2}
          /\ ReadsAt = 3..Len(irOps)
          /\ Len(irOps) = 2 + Len(SnapshotReads)
    /\ (pc \in {"tick", "send", "sleep"} /\ kind = "idle") =>
          irOps = <<"iracing_running">>

\* C16 witness: a live tick has refreshed, read its fields and published
C16_Witness ==
    /\ pc = "sleep"
    /\ kind = "live"
    /\ irOps[2] = "freeze_var_buffer_latest"
    /\ irOps[3] = "ir[WeekendInfo]"
    /\ Len(irOps) = 21

\* the initial connect() has raised and __init__ has returned
ConnectFailed == pc # "start" /\ initRc = "none"

\* C17: when the initial connect raises, the error is only logged: the
\* construction ends in the startup wait with nothing published and the flag
\* false; no birth is ever published; nothing but a callback sets the flag;
\* the program ends early only by an interrupt in the startup wait; and each
\* tick of process still publishes its whole cycle.
C17_ConnectFailureOnlyLogged ==
    [][/\ (pc = "start" /\ initRc' = "none") =>
              (pc' = "wait" /\ statusLog' = <<>> /\ ~connected' /\ ~anyTelemetry')
       /\ ConnectFailed =>
              /\ births = 0
              /\ pc # "birth"
              /\ callbacks = 0 => ~connected
              /\ pc = "killed" => intAt[1] = "wait"
              /\ pc = "sleep" => Len(cycle) = Len(TelemetrySuffixes)
              /\ (pc = "tick" /\ ProcessStep) => pc' = "send"]_vars

\* C17 witness: after the failed connect main has waited, the simulator has
\* come up and a tick has published a whole cycle with the flag still false
C17_Witness ==
    /\ ConnectFailed
    /\ pc = "sleep"
    /\ Len(cycle) = Len(TelemetrySuffixes)
    /\ births = 0
    /\ ~connected
    /\ callbacks = 0

\* C18: after any sequence of on_connect and on_disconnect calls with result
\* codes 0..5 the connected flag is true exactly when the last call was
\* on_connect with code 0; it is false before the first call, after every
\* on_disconnect and after every on_connect with a nonzero code.
C18_FlagFollowsLastCallback ==
    lastCb \in {"none", "on_connect_ok", "on_connect_refused", "on_disconnect"} =>
        (connected <=> lastCb = "on_connect_ok")

\* the disconnect has been called
Disconnected == \E i \in 1..Len(postOps) : postOps[i] = DisconnectOp

\* C19: the will and the disconnect are each issued at most once and only
\* by the interrupt handler; while no interrupt has come, whatever the checks
\* and the callbacks, no will is published; once disconnect has been called
\* the program is at its end, where nothing publishes.
C19_WillAndDisconnectOnceOnInterrupt ==
    /\ wills <= 1
    /\ Cardinality({i \in 1..Len(postOps) : postOps[i] = DisconnectOp}) <= 1
    /\ intAt[1] = "none" => (wills = 0 /\ postOps = <<>>)
    /\ wills = 1 => (pc \in {"h_stop", "h_disc", "done"} /\ InProcess(intAt[1]))
    /\ Disconnected =>
          /\ pc = "done"
          /\ pc \notin {"birth", "send", "h_send", "h_will"}
          /\ postOps[Len(postOps)] = DisconnectOp
          /\ postOps[Len(postOps) - 1] = will

\* C19 witness: after callbacks and a live tick an interrupt has been handled
\* to its end: one will, then one disconnect, last of all
C19_Witness ==
    /\ pc = "done"
    /\ wills = 1
    /\ callbacks >= 2
    /\ intAt = <<"sleep", "live">>
    /\ postOps[Len(postOps)] = DisconnectOp

\* C20: on_connect completes normally for every result code, also for one
\* outside the six-entry table: no call of it ends in an exception.
C20_OnConnectTotalOnResultCodes == lastCb # "on_connect_raised"

====
